---- MODULE Spec2Model ----
(***************************************************************************)
(* A model of dbcview.py: the restart-scan message sort, the per-pair      *)
(* message query, the edge extraction, the priority colour string, and    *)
(* the run of main() from the loaded database to the rendered graph.      *)
(*                                                                         *)
(* Python lists are sequences (1-based here, 0-based in the source), the   *)
(* sender list of a message and the receiver list of a signal are sets    *)
(* (the source only tests membership in them), and strings are sequences  *)
(* of tokens (a character, or a word that is never split).                 *)
(***************************************************************************)
EXTENDS Integers, Sequences, FiniteSets, TLC

VARIABLES
    pc,            \* position of the operation being run
    db,            \* the loaded database: [nodes, messages]
    args,          \* the arguments of the call: filter lists, or (min_id, max_id, msg)
    all_nodes,     \* main: all_nodes, once validated and filtered by ignore
    all_senders,   \* main: all_senders
    all_receivers, \* main: all_receievers
    edges,         \* the edge list of the last get_edges call (or the message list returned)
    prev_edges,    \* the edge list of the get_edges call before the last one
    graph_name,    \* main: graph_name
    out,           \* what was printed, in order
    graph,         \* what dbcview handed to graphviz, or what it returned
    i,             \* sort_messages_by_CAN_id: the loop index i
    calls          \* how many times get_edges ran on this database object

vars == <<pc, db, args, all_nodes, all_senders, all_receivers, edges, prev_edges,
          graph_name, out, graph, i, calls>>

(***************************************************************************)
(* Bounds.                                                                 *)
(***************************************************************************)
Names == {"A", "B"}          \* the node names of the inputs
MaxId == 2                   \* frame ids are 0..MaxId
SortLen == 4                 \* the longest list handed to the sort on its own
IdemMsgs == 4                \* the most messages of a database get_edges is repeated on
EdgeMsgs == 2                \* the most messages of a database get_edges is checked on
MaxLen == 2                  \* the longest filter list given to main
MaxCalls == 2                \* the most calls of get_edges on one database object

None == "None"

(***************************************************************************)
(* Helpers on sequences.                                                   *)
(***************************************************************************)
Range(s) == {s[k] : k \in DOMAIN s}

SeqsUpTo(S, n) == UNION {[1..k -> S] : k \in 0..n}

IsDupFree(s) == \A k, l \in DOMAIN s : k # l => s[k] # s[l]

DupFreeLists(S) == {s \in SeqsUpTo(S, Cardinality(S)) : IsDupFree(s)}

\* every order a set can be listed in: list(set(...))
Orders(S) == {s \in [1..Cardinality(S) -> S] : Range(s) = S}

(***************************************************************************)
(* sort_messages_by_CAN_id, lines 13-22.  Python index k is index k + 1.   *)
(***************************************************************************)
SortCond(msgs, k) == k < Len(msgs) - 2

SortOutOfOrder(msgs, k) == msgs[k + 1].frame_id > msgs[k + 2].frame_id

SortSwapped(msgs, k) ==
    [msgs EXCEPT ![k + 1] = msgs[k + 2], ![k + 2] = msgs[k + 1]]

\* the index after the body of the loop: "i = 0" in the branch, then "i += 1"
SortNextIndex(msgs, k) == IF SortOutOfOrder(msgs, k) THEN 0 + 1 ELSE k + 1

SortNextMsgs(msgs, k) == IF SortOutOfOrder(msgs, k) THEN SortSwapped(msgs, k) ELSE msgs

RECURSIVE SortLoop(_, _)
SortLoop(msgs, k) ==
    IF SortCond(msgs, k)
    THEN SortLoop(SortNextMsgs(msgs, k), SortNextIndex(msgs, k))
    ELSE msgs

sort_messages_by_CAN_id(msgs) == SortLoop(msgs, 0)

(***************************************************************************)
(* messages_from_a_to_b, lines 24-34.                                      *)
(***************************************************************************)
\* any([sender in msg.senders for sender in senders]), line 29
AnySenderIn(msg, senders) == \E k \in DOMAIN senders : senders[k] \in msg.senders

\* any([receiver in sig.receivers for sig in msg.signals]), line 32
AnySignalTo(msg, receiver) == \E k \in DOMAIN msg.signals : receiver \in msg.signals[k]

\* what the inner loop (lines 31-33) appends for one msg: msg, once per
\* receiver of the list that passes the test
AppendedFor(msg, receivers) ==
    LET hits == SelectSeq(receivers, LAMBDA r : AnySignalTo(msg, r))
    IN  [k \in 1..Len(hits) |-> msg]

RECURSIVE MatchingMessages(_, _)
MatchingMessages(msgs_to_search, receivers) ==
    IF msgs_to_search = <<>> THEN <<>>
    ELSE AppendedFor(Head(msgs_to_search), receivers)
         \o MatchingMessages(Tail(msgs_to_search), receivers)

\* messages_from_a_to_b without the sender test of line 29
messages_from_a_to_b_any_sender(messages, senders, receivers) ==
    MatchingMessages(messages, receivers)

messages_from_a_to_b(messages, senders, receivers) ==
    LET msgs_to_search == SelectSeq(messages, LAMBDA m : AnySenderIn(m, senders))
    IN  MatchingMessages(msgs_to_search, receivers)

(***************************************************************************)
(* get_edges, lines 59-71.  The sort is in place: the caller's db.messages *)
(* is the sorted list afterwards.                                          *)
(***************************************************************************)
Edge(sender, receiver, msg) == [sender |-> sender, receiver |-> receiver, msg |-> msg]

EdgesOfPair(sorted_messages, sender, receiver) ==
    LET found == messages_from_a_to_b(sorted_messages, <<sender>>, <<receiver>>)
    IN  [k \in 1..Len(found) |-> Edge(sender, receiver, found[k])]

RECURSIVE EdgesOfSender(_, _, _)
EdgesOfSender(sorted_messages, sender, receivers) ==
    IF receivers = <<>> THEN <<>>
    ELSE EdgesOfPair(sorted_messages, sender, Head(receivers))
         \o EdgesOfSender(sorted_messages, sender, Tail(receivers))

RECURSIVE EdgesOfSenders(_, _, _)
EdgesOfSenders(sorted_messages, senders, receivers) ==
    IF senders = <<>> THEN <<>>
    ELSE EdgesOfSender(sorted_messages, Head(senders), receivers)
         \o EdgesOfSenders(sorted_messages, Tail(senders), receivers)

get_edges(messages, senders, receivers) ==
    LET sorted_messages == sort_messages_by_CAN_id(messages)
    IN  [messages |-> sorted_messages,
         edges |-> EdgesOfSenders(sorted_messages, senders, receivers)]

(***************************************************************************)
(* to_hex_str and color_str_for_msg, lines 36-51.  A float in [0, 1] is    *)
(* the fraction num/den it was computed from; "below" says that the float  *)
(* subtraction 1 - norm came out under the exact difference by enough for  *)
(* int(val * 255) to fall one short of an exact integer product.           *)
(***************************************************************************)
HexDigit(n) == <<"0", "1", "2", "3", "4", "5", "6", "7",
                 "8", "9", "a", "b", "c", "d", "e", "f">>[n + 1]

\* hex(n)[2:] for n >= 0
RECURSIVE HexOf(_)
HexOf(n) == IF n < 16 THEN <<HexDigit(n)>> ELSE HexOf(n \div 16) \o <<HexDigit(n % 16)>>

\* the (frame_id - min_id, id_range) with id_range <= 16 at which IEEE double
\* arithmetic gives int((1 - norm) * 255) one less than the exact quotient
RoundedDown == {<<4, 5>>, <<8, 10>>, <<12, 15>>, <<13, 15>>, <<14, 15>>}

Float(num, den) == [num |-> num, den |-> den, below |-> FALSE]

\* 1 - norm, line 49
OneMinus(norm) ==
    [num |-> norm.den - norm.num, den |-> norm.den,
     below |-> <<norm.num, norm.den>> \in RoundedDown]

\* int(val * 255), line 37
IntTimes255(val) ==
    LET q == (val.num * 255) \div val.den
    IN  IF val.below /\ (val.num * 255) % val.den = 0 THEN q - 1 ELSE q

to_hex_str(val) == HexOf(IntTimes255(val))

color_str_for_msg(msg, min_id, max_id) ==
    LET id_range == max_id - min_id
        norm == IF id_range # 0 THEN Float(msg.frame_id - min_id, id_range)
                ELSE Float(1, 2)
    IN  <<"#">> \o to_hex_str(OneMinus(norm)) \o <<"0", "0">> \o to_hex_str(norm)

\* fmt_msg_name, lines 53-54
fmt_msg_name(msg) ==
    [name |-> msg.name, hex |-> <<"0", "x">> \o HexOf(msg.frame_id), dec |-> msg.frame_id]

(***************************************************************************)
(* dbcview, lines 73-92.  min() and max() of an empty list raise           *)
(* ValueError; otherwise one graph edge per edge of the list.              *)
(***************************************************************************)
MinOf(S) == CHOOSE x \in S : \A y \in S : x <= y
MaxOf(S) == CHOOSE x \in S : \A y \in S : x >= y

Filename(name) == [k \in DOMAIN name |-> IF name[k] = " " THEN "_" ELSE name[k]]

dbcview(name, edge_list) ==
    IF edge_list = <<>>
    THEN [called |-> TRUE, raised |-> "ValueError"]
    ELSE LET ids == {edge_list[k].msg.frame_id : k \in DOMAIN edge_list}
             min_id == MinOf(ids)
             max_id == MaxOf(ids)
         IN  [called |-> TRUE,
              raised |-> None,
              name |-> name,
              filename |-> Filename(name),
              edges |-> [k \in DOMAIN edge_list |->
                            [tail_name |-> edge_list[k].sender,
                             head_name |-> edge_list[k].receiver,
                             label |-> fmt_msg_name(edge_list[k].msg),
                             color |-> color_str_for_msg(edge_list[k].msg, min_id, max_id)]]]

(***************************************************************************)
(* The inputs.                                                             *)
(***************************************************************************)
Message(name, frame_id, senders, signals) ==
    [name |-> name, frame_id |-> frame_id, senders |-> senders, signals |-> signals]

\* the signal lists of the messages of the inputs
SignalLists == {<<>>, <<{"A"}>>, <<{"B"}>>, <<{"A"}, {"B"}>>}

NoGraph == [called |-> FALSE]

Idle(p) ==
    /\ pc = p
    /\ all_nodes = <<>> /\ all_senders = <<>> /\ all_receivers = <<>>
    /\ edges = <<>> /\ prev_edges = <<>>
    /\ graph_name = <<>> /\ out = <<>> /\ graph = NoGraph
    /\ i = 0 /\ calls = 0

(***************************************************************************)
(* sort_messages_by_CAN_id, one action per turn of the loop.               *)
(***************************************************************************)
SortInputs ==
    {[k \in DOMAIN ids |-> Message(k, ids[k], {"A"}, <<{"B"}>>)] :
        ids \in SeqsUpTo(0..MaxId, SortLen)}

InitSort ==
    /\ Idle("sort")
    /\ \E msgs \in SortInputs : db = [nodes |-> Names, messages |-> msgs]
    /\ args = [msgs |-> db.messages]

\* lines 15-21, the branch taken
SortSwap ==
    /\ pc = "sort"
    /\ SortCond(db.messages, i)
    /\ SortOutOfOrder(db.messages, i)
    /\ db' = [db EXCEPT !.messages = SortNextMsgs(db.messages, i)]
    /\ i' = SortNextIndex(db.messages, i)
    /\ UNCHANGED <<pc, args, all_nodes, all_senders, all_receivers, edges, prev_edges,
                   graph_name, out, graph, calls>>

\* lines 15-21, the branch not taken
SortAdvance ==
    /\ pc = "sort"
    /\ SortCond(db.messages, i)
    /\ ~SortOutOfOrder(db.messages, i)
    /\ i' = SortNextIndex(db.messages, i)
    /\ UNCHANGED <<pc, db, args, all_nodes, all_senders, all_receivers, edges, prev_edges,
                   graph_name, out, graph, calls>>

\* line 22
SortReturn ==
    /\ pc = "sort"
    /\ ~SortCond(db.messages, i)
    /\ pc' = "sorted"
    /\ UNCHANGED <<db, args, all_nodes, all_senders, all_receivers, edges, prev_edges,
                   graph_name, out, graph, i, calls>>

NextSort == SortSwap \/ SortAdvance \/ SortReturn

SpecSort == InitSort /\ [][NextSort]_vars

(***************************************************************************)
(* get_edges and messages_from_a_to_b, called on a database.               *)
(***************************************************************************)
EdgeIds == {0, 1}

EdgeMessages ==
    {Message(0, id, s, g) : id \in EdgeIds, s \in SUBSET Names, g \in SignalLists}

\* the messages of a database are distinct objects: the name tells them apart
EdgeInputs ==
    {[k \in DOMAIN ms |-> [ms[k] EXCEPT !.name = k]] : ms \in SeqsUpTo(EdgeMessages, EdgeMsgs)}

IdemInputs ==
    {[k \in DOMAIN ids |-> Message(k, ids[k], {"A"}, <<{"B"}>>)] :
        ids \in SeqsUpTo(0..MaxId, IdemMsgs)}

InitCall(inputs) ==
    /\ Idle("call")
    /\ \E msgs \in inputs : db = [nodes |-> Names, messages |-> msgs]
    /\ \E s \in DupFreeLists(Names), r \in DupFreeLists(Names) :
          args = [messages |-> db.messages, senders |-> s, receivers |-> r]

InitEdges == InitCall(EdgeInputs)

InitIdem == InitCall(IdemInputs)

\* get_edges(db, senders, receivers), lines 59-71, on the database as it is
GetEdgesOnDb ==
    /\ calls < MaxCalls
    /\ LET got == get_edges(db.messages, args.senders, args.receivers)
       IN  /\ db' = [db EXCEPT !.messages = got.messages]
           /\ edges' = got.edges
    /\ prev_edges' = edges
    /\ calls' = calls + 1
    /\ pc' = "got_edges"
    /\ UNCHANGED <<args, all_nodes, all_senders, all_receivers, graph_name, out, graph, i>>

\* the first call
GetEdgesCall == pc = "call" /\ GetEdgesOnDb

\* the same call again, on the same database object
GetEdgesAgain == pc = "got_edges" /\ GetEdgesOnDb

\* a call of messages_from_a_to_b(db.messages, senders, receivers), lines 24-34
MessagesFromAToBCall ==
    /\ pc = "call"
    /\ edges' = messages_from_a_to_b(db.messages, args.senders, args.receivers)
    /\ pc' = "got_messages"
    /\ UNCHANGED <<db, args, all_nodes, all_senders, all_receivers, prev_edges,
                   graph_name, out, graph, i, calls>>

NextEdges == GetEdgesCall \/ MessagesFromAToBCall

SpecEdges == InitEdges /\ [][NextEdges]_vars

NextIdem == GetEdgesCall \/ GetEdgesAgain

SpecIdem == InitIdem /\ [][NextIdem]_vars

(***************************************************************************)
(* color_str_for_msg, called with the least and the greatest identifier of *)
(* an edge list the message is in.                                         *)
(***************************************************************************)
ColorMaxId == 8

InitColor ==
    /\ Idle("color")
    /\ db = [nodes |-> Names, messages |-> <<>>]
    /\ \E lo \in 0..ColorMaxId, hi \in 0..ColorMaxId, id \in 0..ColorMaxId :
          /\ lo <= id /\ id <= hi
          /\ args = [min_id |-> lo, max_id |-> hi, msg |-> Message(1, id, {"A"}, <<{"B"}>>)]

ColorCall ==
    /\ pc = "color"
    /\ graph' = [called |-> TRUE,
                 color |-> color_str_for_msg(args.msg, args.min_id, args.max_id)]
    /\ pc' = "colored"
    /\ UNCHANGED <<db, args, all_nodes, all_senders, all_receivers, edges, prev_edges,
                   graph_name, out, i, calls>>

NextColor == ColorCall

SpecColor == InitColor /\ [][NextColor]_vars

(***************************************************************************)
(* main, lines 94-143.                                                     *)
(***************************************************************************)
\* get_node_names, lines 56-57: list(set(...)) lists the names in some order
get_node_names(d) == Orders(d.nodes)

\* line 109 without the ignore list
nonexistent_nodes_unchecked_ignore(known, nodes, senders, receivers, ignore) ==
    SelectSeq(nodes \o senders \o receivers, LAMBDA n : n \notin Range(known))

\* line 109
nonexistent_nodes(known, nodes, senders, receivers, ignore) ==
    SelectSeq(nodes \o senders \o receivers \o ignore, LAMBDA n : n \notin Range(known))

\* line 115 without the filter
WithoutIgnoredKeepingAll(known, ignore) == known

\* line 115
WithoutIgnored(known, ignore) == SelectSeq(known, LAMBDA n : n \notin Range(ignore))

\* x or y, for lists
Or(x, y) == IF x # <<>> THEN x ELSE y

\* lines 120-128: the (all_senders, all_receievers) the modes can give; in node-list
\* mode both are the one list(set(nodes + all_nodes)), in some order
Selections(known, nodes, senders, receivers) ==
    IF nodes # <<>>
    THEN {[senders |-> l, receivers |-> l] : l \in Orders(Range(nodes \o known))}
    ELSE IF senders # <<>> \/ receivers # <<>>
    THEN {[senders |-> Or(senders, known), receivers |-> Or(receivers, known)]}
    ELSE {[senders |-> known, receivers |-> known]}

\* ' '.join(names)
RECURSIVE Join(_)
Join(names) ==
    IF names = <<>> THEN <<>>
    ELSE IF Len(names) = 1 THEN <<names[1]>>
    ELSE <<names[1], " ">> \o Join(Tail(names))

\* pathlib.Path(dbc_filename).stem
Stem == <<"bus">>

\* lines 134-139
GraphName(senders, receivers) ==
    LET sender_expr == IF senders # <<>> THEN <<"from", " ">> \o Join(senders) ELSE <<>>
        receiver_expr == IF receivers # <<>> THEN <<"to", " ">> \o Join(receivers) ELSE <<>>
    IN  IF Range(senders) # Range(receivers) /\ (sender_expr # <<>> \/ receiver_expr # <<>>)
        THEN Stem \o <<" ">> \o sender_expr \o <<" ">> \o receiver_expr
        ELSE Stem

\* the message lists of the databases main is run on
MainMessages ==
    {<<>>,
     <<Message(1, 1, {"A"}, <<{"B"}>>)>>,
     <<Message(1, 2, {"A"}, <<{"B"}>>), Message(2, 0, {"B", "A"}, <<{"A"}, {"B"}>>)>>}

FilterLists == SeqsUpTo(Names, MaxLen)

Init ==
    /\ Idle("start")
    /\ \E n \in SUBSET Names, msgs \in MainMessages : db = [nodes |-> n, messages |-> msgs]
    /\ \E n \in FilterLists, s \in FilterLists, r \in FilterLists, ig \in FilterLists :
          args = [nodes |-> n, senders |-> s, receivers |-> r, ignore |-> ig]

\* lines 101-106
MainEmptyCatalog ==
    /\ pc = "start"
    /\ \E known \in get_node_names(db) :
          /\ known = <<>>
          /\ out' = <<[text |-> "No nodes found in this DBC!"]>>
    /\ pc' = "returned"
    /\ UNCHANGED <<db, args, all_nodes, all_senders, all_receivers, edges, prev_edges,
                   graph_name, graph, i, calls>>

\* lines 101-113
MainUnknownNames ==
    /\ pc = "start"
    /\ \E known \in get_node_names(db) :
          LET missing == nonexistent_nodes(known, args.nodes, args.senders,
                                           args.receivers, args.ignore)
          IN  /\ known # <<>>
              /\ missing # <<>>
              /\ out' = <<[text |-> "specified nodes not found", names |-> missing],
                          [text |-> "nodes in this file", names |-> known]>>
    /\ pc' = "returned"
    /\ UNCHANGED <<db, args, all_nodes, all_senders, all_receivers, edges, prev_edges,
                   graph_name, graph, i, calls>>

\* lines 101-132
MainGetEdges ==
    /\ pc = "start"
    /\ \E known \in get_node_names(db) :
          /\ known # <<>>
          /\ nonexistent_nodes(known, args.nodes, args.senders,
                               args.receivers, args.ignore) = <<>>
          /\ all_nodes' = WithoutIgnored(known, args.ignore)
          /\ \E sel \in Selections(all_nodes', args.nodes, args.senders, args.receivers) :
                LET got == get_edges(db.messages, sel.senders, sel.receivers)
                IN  /\ all_senders' = sel.senders
                    /\ all_receivers' = sel.receivers
                    /\ db' = [db EXCEPT !.messages = got.messages]
                    /\ edges' = got.edges
                    /\ out' = IF got.edges = <<>>
                              THEN <<[text |-> "No edges found between",
                                      senders |-> sel.senders,
                                      receivers |-> sel.receivers]>>
                              ELSE <<>>
    /\ calls' = calls + 1
    /\ pc' = "edges"
    /\ UNCHANGED <<args, prev_edges, graph_name, graph, i>>

\* lines 134-143
MainRender ==
    /\ pc = "edges"
    /\ graph_name' = GraphName(args.senders, args.receivers)
    /\ graph' = dbcview(graph_name', edges)
    /\ pc' = IF graph'.raised # None THEN "raised" ELSE "done"
    /\ UNCHANGED <<db, args, all_nodes, all_senders, all_receivers, edges, prev_edges,
                   out, i, calls>>

Next == MainEmptyCatalog \/ MainUnknownNames \/ MainGetEdges \/ MainRender

Spec == Init /\ [][Next]_vars

(***************************************************************************)
(* The properties.                                                         *)
(***************************************************************************)
HexChars == {HexDigit(n) : n \in 0..15}

NoEdgesReported == \E k \in DOMAIN out : out[k].text = "No edges found between"

\* C1: a run of main() with valid filters that reports "no edges found" does
\* not end in an unhandled error afterwards.
C1_NoEdgesRunDoesNotRaise == NoEdgesReported => pc # "raised"

\* C2: get_edges called twice in a row on the same database object with the
\* same sender and receiver lists returns the same ordered edge list.
C2_GetEdgesIdempotent == (pc = "got_edges" /\ calls >= 2) => edges = prev_edges

FilterNames == Range(args.nodes \o args.senders \o args.receivers \o args.ignore)

InvalidRun == db.nodes = {} \/ ~(FilterNames \subseteq db.nodes)

\* C3: with an empty catalog, or a filter name that is not in the catalog,
\* main() returns early with a diagnostic: get_edges and dbcview are never
\* called, so edges are computed only when every filter name is in a
\* non-empty catalog.
C3_InvalidRunReturnsEarly ==
    InvalidRun =>
        /\ pc \in {"start", "returned"}
        /\ pc = "returned" => out # <<>>
        /\ calls = 0
        /\ edges = <<>>
        /\ ~graph.called

C3_Witness ==
    /\ pc = "returned"
    /\ db.nodes # {}
    /\ Range(args.nodes \o args.senders \o args.receivers) \subseteq db.nodes
    /\ ~(Range(args.ignore) \subseteq db.nodes)
    /\ Len(out) = 2

IsRRGGBB(c) ==
    /\ Len(c) = 7
    /\ c[1] = "#"
    /\ \A k \in 2..7 : c[k] \in HexChars
    /\ c[4] = "0" /\ c[5] = "0"

\* C4: color_str_for_msg, called with the least and greatest identifier of
\* the edge list, returns '#' and six lowercase hexadecimal digits with the
\* green channel '00'; with differing identifiers the least one gets
\* #ff0000 and the greatest one #0000ff.
C4_ColorIsRRGGBB ==
    pc = "colored" =>
        /\ IsRRGGBB(graph.color)
        /\ args.min_id # args.max_id =>
              /\ args.msg.frame_id = args.min_id
                    => graph.color = <<"#", "f", "f", "0", "0", "0", "0">>
              /\ args.msg.frame_id = args.max_id
                    => graph.color = <<"#", "0", "0", "0", "0", "f", "f">>

\* C5: sort_messages_by_CAN_id returns the messages in ascending order of
\* frame_id: every adjacent pair of the returned list is in order.
C5_SortedAscending ==
    pc = "sorted" =>
        \A k \in 1..(Len(db.messages) - 1) :
            db.messages[k].frame_id <= db.messages[k + 1].frame_id

Qualifies(s, r, m) == s \in m.senders /\ \E k \in DOMAIN m.signals : r \in m.signals[k]

Count(list, x) == Cardinality({k \in DOMAIN list : list[k] = x})

Pos(list, x) == CHOOSE k \in DOMAIN list : list[k] = x

\* C6: for duplicate-free sender and receiver lists get_edges returns exactly
\* one edge (s, r, m) for each listed sender s and listed receiver r and each
\* message m that s sends and some signal of which r receives, and no other
\* edge; the edges are ordered by sender, then by receiver, in list order.
C6_OneEdgePerTriple ==
    pc = "got_edges" =>
        /\ \A s \in Range(args.senders), r \in Range(args.receivers),
              m \in Range(args.messages) :
                Count(edges, Edge(s, r, m)) = IF Qualifies(s, r, m) THEN 1 ELSE 0
        /\ \A k \in DOMAIN edges :
              /\ edges[k].sender \in Range(args.senders)
              /\ edges[k].receiver \in Range(args.receivers)
              /\ edges[k].msg \in Range(args.messages)
        /\ \A k, l \in DOMAIN edges :
              k < l =>
                \/ Pos(args.senders, edges[k].sender) < Pos(args.senders, edges[l].sender)
                \/ /\ edges[k].sender = edges[l].sender
                   /\ Pos(args.receivers, edges[k].receiver)
                         <= Pos(args.receivers, edges[l].receiver)

C6_Witness ==
    /\ pc = "got_edges"
    /\ \E k, l \in DOMAIN edges :
          /\ edges[k].msg = edges[l].msg
          /\ edges[k].sender = edges[l].sender
          /\ edges[k].receiver # edges[l].receiver
    /\ \E k, l \in DOMAIN edges : edges[k].sender # edges[l].sender
    /\ \E m \in Range(args.messages) : \A k \in DOMAIN edges : edges[k].msg # m

QualifiesAny(senders, receivers, m) ==
    \E s \in Range(senders), r \in Range(receivers) : Qualifies(s, r, m)

\* C7: for sender and receiver lists of any length messages_from_a_to_b
\* returns each qualifying message exactly once and no other message.
C7_EachQualifyingMessageOnce ==
    pc = "got_messages" =>
        /\ \A m \in Range(args.messages) :
              Count(edges, m) = IF QualifiesAny(args.senders, args.receivers, m) THEN 1 ELSE 0
        /\ Range(edges) \subseteq Range(args.messages)

Resolved == pc \in {"edges", "done", "raised"}

\* the filter list in effect: nodes in node-list mode, else senders (receivers)
ExplicitSenders == IF args.nodes # <<>> THEN Range(args.nodes) ELSE Range(args.senders)

ExplicitReceivers == IF args.nodes # <<>> THEN Range(args.nodes) ELSE Range(args.receivers)

\* C8: in the sender and receiver sets passed to get_edges an ignored name
\* appears only if the filter list in effect names it, and every name of the
\* filter list in effect is kept, ignored or not.
C8_IgnoredOnlyIfExplicit ==
    Resolved =>
        /\ \A n \in Range(args.ignore) :
              /\ n \in Range(all_senders) => n \in ExplicitSenders
              /\ n \in Range(all_receivers) => n \in ExplicitReceivers
        /\ ExplicitSenders \subseteq Range(all_senders)
        /\ ExplicitReceivers \subseteq Range(all_receivers)

C8_Witness ==
    /\ Resolved
    /\ args.nodes = <<>>
    /\ args.receivers = <<>>
    /\ all_receivers # <<>>
    /\ \E n \in Range(args.ignore) :
          /\ n \in Range(args.senders)
          /\ n \in Range(all_senders)
          /\ n \notin Range(all_receivers)

TitleClaimed ==
    Stem
    \o (IF args.senders # <<>> THEN <<" ", "from", " ">> \o Join(args.senders) ELSE <<>>)
    \o (IF args.receivers # <<>> THEN <<" ", "to", " ">> \o Join(args.receivers) ELSE <<>>)

\* C9: when the sender and receiver filters differ, the graph title is the
\* file stem, then " from <senders>" exactly when senders were given, then
\* " to <receivers>" exactly when receivers were given, with no other spaces.
C9_TitleHasOnlyGivenClauses ==
    (pc \in {"done", "raised"} /\ Range(args.senders) # Range(args.receivers))
        => graph_name = TitleClaimed

\* C10: the scan restarts at index 0 after a swap, so on return every
\* adjacent pair at the (0-based) indices 0 .. len - 3 is in order: only the
\* last element can be out of place.
C10_ScannedRangeInOrder ==
    pc = "sorted" =>
        \A k \in 1..(Len(db.messages) - 2) :
            db.messages[k].frame_id <= db.messages[k + 1].frame_id

====
